---- MODULE Spec2Model ----
(***************************************************************************)
(* translation-portal: the string catalog (scripts/extract_strings.py),    *)
(* the machine-translation merge (scripts/ai_translate.py) and the export  *)
(* (scripts/export_translations.py), as one state machine over the files   *)
(* the three scripts share: the source tree, data/source-strings.json,     *)
(* data/snapshots/, data/translations/<lang>.json and the exported locale  *)
(* files.                                                                  *)
(*                                                                         *)
(* Conventions.  A Python dict is a TLA+ function whose DOMAIN is the set  *)
(* of keys present; an insertion-ordered dict whose order matters (the     *)
(* catalog's sections) is a sequence of [name, value] pairs.  None is the  *)
(* value of a missing key under dict.get and of a failed translation.  A   *)
(* name (directory, file stem) is the sequence of its '.'-separated        *)
(* pieces, a path or section name the sequence of its '/'-separated names. *)
(***************************************************************************)
EXTENDS Integers, Sequences, FiniteSets, TLC

VARIABLES
    tree,          \* the gear_optimizer checkout: file index -> [exists, strings]
    catalog,       \* data/source-strings.json: [exists, data]
    snapshot,      \* the newest data/snapshots/source-strings-*.json: [exists, data]
    store,         \* data/translations/<lang>.json: [exists, data]
    pc,            \* where the ai_translate run is: "idle", "loaded", "merged"
    translations,  \* the run's in-memory dict (empty while no run is in progress)
    calls,         \* the provider calls translate_strings made in the run in progress
    report,        \* what the run's merge returned: glossary count, total, translated, skipped
    locale,        \* the exported <lang>.json and <lang>-flat.json: [exists, data]
    changes,       \* number of changes people have made: source edits and portal saves
    torn,          \* the language file is open for writing: it holds no complete JSON text
    tt             \* a call of translate_text in progress: its arguments, loop index, result

vars == <<tree, catalog, snapshot, store, pc, translations, calls, report, locale, changes,
          torn, tt>>

----------------------------------------------------------------------------
(* Bounds of the model *)

\* How many changes people make to the inputs in one behaviour: a developer's
\* edit of a source file, a translator's save in the portal.
MaxChanges == 1

----------------------------------------------------------------------------
(* Python values *)

None == "<None>"

\* A file that may not exist: path.exists() and, if so, what it holds.
File(doc) == [exists |-> TRUE, data |-> doc]

\* bool(x) for the values the scripts test: None and "" are falsy.
Truthy(x) == x # None /\ x # ""

\* d.get(k)
Get(d, k) == IF k \in DOMAIN d THEN d[k] ELSE None

\* d.get(k, default)
GetOr(d, k, default) == IF k \in DOMAIN d THEN d[k] ELSE default

\* d[k] = v on a dict
Put(d, k, v) == [x \in DOMAIN d \cup {k} |-> IF x = k THEN v ELSE d[x]]

EmptyDict == [x \in {} |-> None]

Range(s) == {s[i] : i \in DOMAIN s}

\* str(i) for the indices enumerate() yields
Str(i) ==
    CASE i = 0 -> "0" [] i = 1 -> "1" [] i = 2 -> "2" [] i = 3 -> "3"
      [] i = 4 -> "4" [] i = 5 -> "5" [] i = 6 -> "6" [] i = 7 -> "7"

RECURSIVE Flatten(_)
\* '.'.join of names that are themselves '.'-separated, then split('.')
Flatten(names) ==
    IF names = <<>> THEN <<>> ELSE Head(names) \o Flatten(Tail(names))

----------------------------------------------------------------------------
(* The source texts and the source tree *)

Texts == {"Attack", "Melee Attack"}

\* len(text)
CharsOf(text) == CASE text = "Attack" -> 6 [] text = "Melee Attack" -> 12

\* hashlib.md5(s.encode()).hexdigest()[:8]
hash_string(s) == CASE s = "Attack" -> "dcfafcb4" [] s = "Melee Attack" -> "aec1ac8f"

EXCLUDED_FILES ==
    { [stem |-> <<"README">>, suffix |-> "md"],
      [stem |-> <<"CLAUDE">>, suffix |-> "md"],
      [stem |-> <<"CHANGELOG">>, suffix |-> "md"] }

\* The files the checkout may hold, in the order rglob lists them.  Two
\* components in different directories named a/, a third in b/, all with
\* the stem Foo; one Markdown page and a README beside it.
Files ==
    << [dir |-> << <<"src">>, <<"components">>, <<"x">>, <<"a">> >>,
        stem |-> <<"Foo">>, suffix |-> "vue"],
       [dir |-> << <<"src">>, <<"components">>, <<"y">>, <<"a">> >>,
        stem |-> <<"Foo">>, suffix |-> "vue"],
       [dir |-> << <<"src">>, <<"components">>, <<"b">> >>,
        stem |-> <<"Foo">>, suffix |-> "vue"],
       [dir |-> << <<"content">> >>,
        stem |-> <<"faq">>, suffix |-> "md"],
       [dir |-> << <<"content">> >>,
        stem |-> <<"README">>, suffix |-> "md"] >>

IsPrefix(p, s) == Len(p) <= Len(s) /\ SubSeq(s, 1, Len(p)) = p

\* vue_dir.rglob("*.vue")
VueIdx ==
    {i \in DOMAIN Files :
        /\ IsPrefix(<< <<"src">>, <<"components">> >>, Files[i].dir)
        /\ Files[i].suffix = "vue"}

\* content_dir.rglob("*.md")
MdIdx ==
    {i \in DOMAIN Files :
        /\ IsPrefix(<< <<"content">> >>, Files[i].dir)
        /\ Files[i].suffix = "md"}

\* What a file holds: the list `strings` its scanner has collected when it
\* returns (the matches that passed the scanner's filters, in scan order).
VueContents ==
    { <<"Attack">>, <<"Melee Attack">>, <<"Attack", "Attack">>,
      <<"Attack", "Melee Attack">> }

MdContents ==
    { << <<"header", "Attack">>, <<"header", "Attack">> >>,
      << <<"list_item", "Attack">>, <<"paragraph", "Melee Attack">> >> }

ContentsOf(i) == IF i \in VueIdx THEN VueContents ELSE MdContents

NoSource == [exists |-> FALSE, strings |-> <<>>]
Source(c) == [exists |-> TRUE, strings |-> c]

\* The orders in which iterating a set of strings can yield its elements:
\* each is a ranking of the texts.
Rankings == {r \in [1..Cardinality(Texts) -> Texts] : Range(r) = Texts}

----------------------------------------------------------------------------
(* scripts/extract_strings.py *)

\* list(set(strings)): the distinct strings, in the order the set yields them
ListOfSet(strings, ranking) ==
    SelectSeq(ranking, LAMBDA t : t \in Range(strings))

\* extract_vue_strings: `content` is the list `strings` built by the regex
\* scans (lines 56-75); line 77 returns list(set(strings)).
extract_vue_strings(content, ranking) == ListOfSet(content, ranking)

\* extract_markdown_strings returns its (type, text) list as collected.
extract_markdown_strings(content) == content

\* sections[k] = v on the insertion-ordered dict: an existing key keeps its
\* place and gets the new value, a new key goes last.
OdPut(sections, k, v) ==
    IF \E j \in DOMAIN sections : sections[j].name = k
    THEN [j \in DOMAIN sections |->
            IF sections[j].name = k THEN [name |-> k, value |-> v] ELSE sections[j]]
    ELSE Append(sections, [name |-> k, value |-> v])

\* rel_path: the file's path below the checkout, with its file name
RelPath(f) == [dir |-> f.dir, stem |-> f.stem, suffix |-> f.suffix]

VueRecord(section_name, i, text) ==
    [id |-> Flatten(section_name) \o <<Str(i)>>,
     en |-> text,
     chars |-> CharsOf(text),
     hash |-> hash_string(text)]

MdRecord(section_name, i, item) ==
    [id |-> Flatten(section_name) \o <<item[1], Str(i)>>,
     en |-> item[2],
     chars |-> CharsOf(item[2]),
     hash |-> hash_string(item[2]),
     context |-> item[1]]

\* line 182: f"vue/{rel_path.parent.name}/{vue_file.stem}"
vue_section_name(f) == << <<"vue">>, f.dir[Len(f.dir)], f.stem >>

\* line 209: f"content/{md_file.stem}"
md_section_name(f) == << <<"content">>, f.stem >>

\* lines 180-198, one pass of the loop over vue_dir.rglob("*.vue")
VueSection(f, strings) ==
    LET section_name == vue_section_name(f)
    IN [name |-> section_name,
        value |-> [source_file |-> RelPath(f),
                   type |-> "vue_component",
                   strings |-> [i \in 1..Len(strings) |->
                                   VueRecord(section_name, i - 1, strings[i])]]]

\* lines 203-226, one pass of the loop over content_dir.rglob("*.md")
MdSection(f, strings) ==
    LET section_name == md_section_name(f)
    IN [name |-> section_name,
        value |-> [source_file |-> RelPath(f),
                   type |-> "markdown",
                   strings |-> [i \in 1..Len(strings) |->
                                   MdRecord(section_name, i - 1, strings[i])]]]

RECURSIVE VueLoop(_, _, _, _)
VueLoop(i, tr, ranks, sections) ==
    IF i > Len(Files) THEN sections
    ELSE IF i \notin VueIdx \/ ~tr[i].exists THEN VueLoop(i + 1, tr, ranks, sections)
    ELSE LET strings == extract_vue_strings(tr[i].strings, ranks[i])
             s == VueSection(Files[i], strings)
         IN VueLoop(i + 1, tr, ranks,
                    IF strings # <<>> THEN OdPut(sections, s.name, s.value)
                    ELSE sections)

RECURSIVE MdLoop(_, _, _)
MdLoop(i, tr, sections) ==
    IF i > Len(Files) THEN sections
    ELSE IF i \notin MdIdx \/ ~tr[i].exists THEN MdLoop(i + 1, tr, sections)
    ELSE IF [stem |-> Files[i].stem, suffix |-> Files[i].suffix] \in EXCLUDED_FILES
         THEN MdLoop(i + 1, tr, sections)
    ELSE LET strings == extract_markdown_strings(tr[i].strings)
             s == MdSection(Files[i], strings)
         IN MdLoop(i + 1, tr,
                   IF strings # <<>> THEN OdPut(sections, s.name, s.value)
                   ELSE sections)

\* extract_gear_optimizer(): the Vue components, then the Markdown content
extract_gear_optimizer(tr, ranks) == MdLoop(1, tr, VueLoop(1, tr, ranks, <<>>))

\* Every record of a catalog's sections, in section order
RECURSIVE AllStrings(_)
AllStrings(sections) ==
    IF sections = <<>> THEN <<>>
    ELSE Head(sections).value.strings \o AllStrings(Tail(sections))

RECURSIVE SumChars(_)
SumChars(strs) == IF strs = <<>> THEN 0 ELSE Head(strs).chars + SumChars(Tail(strs))

\* calculate_stats(data)
calculate_stats(sections) ==
    [total_strings |-> Len(AllStrings(sections)),
     total_chars |-> SumChars(AllStrings(sections))]

\* The document main() builds (lines 256-274).  meta.extracted_at and
\* meta.version are the clock's and are left out.
BuildOutput(tr, ranks) ==
    LET gear_sections == extract_gear_optimizer(tr, ranks)
        all_sections == [j \in DOMAIN gear_sections |->
                            [name |-> << <<"gear_optimizer">> >> \o gear_sections[j].name,
                             value |-> gear_sections[j].value]]
    IN [meta |-> calculate_stats(all_sections), sections |-> all_sections]

NoCatalog ==
    [exists |-> FALSE,
     data |-> [meta |-> [total_strings |-> 0, total_chars |-> 0], sections |-> <<>>]]

CatalogIds(c) == {r.id : r \in Range(AllStrings(c.data.sections))}


----------------------------------------------------------------------------
(* scripts/ai_translate.py *)

\* The language of the run (sys.argv[1]); LANGUAGE_MAP maps it to itself.
Lang == "ko"

\* translate_text's default retries
Retries == 3

\* What one call of translator.translate(text) does: raises, or returns the
\* translation.
ProviderError == "<exception>"

\* An exception that would be raised again on every further call (a language
\* the provider does not support, a text it rejects)
PermanentError == "<permanent exception>"

\* `except Exception` (line 40) catches both.
ProviderErrors == {ProviderError, PermanentError}

ProviderOutcomes == {ProviderError, PermanentError, "ai"}

\* translate_text, from attempt `attempt` on: outcomes[k] is what the
\* provider does on the k-th call.
RECURSIVE translate_attempt(_, _, _)
translate_attempt(outcomes, attempt, retries) ==
    IF attempt >= retries THEN None
    ELSE IF outcomes[attempt + 1] \notin ProviderErrors THEN outcomes[attempt + 1]
    ELSE IF attempt < retries - 1 THEN translate_attempt(outcomes, attempt + 1, retries)
    ELSE None

translate_text(outcomes, retries) == translate_attempt(outcomes, 0, retries)

\* No call of translate_text is being followed step by step.
NoCall == [state |-> "none", outcomes |-> <<>>, retries |-> 0, attempt |-> 0,
           ncalls |-> 0, result |-> None]

\* Every value translate_text(text, lang) can return
TranslateResults ==
    {translate_text(o, Retries) : o \in [1..Retries -> ProviderOutcomes]}

\* data/glossary.json: one category with one term
Glossary ==
    [categories |-> << [name |-> "stats", value |-> [terms |-> << [en |-> "Attack"] >>]] >>]

RECURSIVE AllTerms(_)
AllTerms(categories) ==
    IF categories = <<>> THEN <<>>
    ELSE Head(categories).value.terms \o AllTerms(Tail(categories))

\* The dict keys that are not string ids
MetaKey == <<"_meta">>
GlossaryKey == <<"glossary">>

\* store_suggestion without the test of line 77: the status is set whether
\* or not the entry has a text.
store_suggestion_unguarded(d, k, result) ==
    LET e0 == IF k \in DOMAIN d THEN d[k] ELSE EmptyDict
    IN Put(d, k, Put(Put(e0, "ai_suggestion", result), "status", "needs_review"))

\* Lines 71-78 (and 112-117): a truthy result arrives for key k of dict d.
store_suggestion(d, k, result) ==
    LET e0 == IF k \in DOMAIN d THEN d[k] ELSE EmptyDict
        e1 == Put(e0, "ai_suggestion", result)
        e2 == IF ~Truthy(Get(e1, "text")) THEN Put(e1, "status", "needs_review") ELSE e1
    IN Put(d, k, e2)

\* apply_result recording a failed translation: the entry is created, or its
\* status reset.
apply_result_marking(d, k, result) ==
    IF Truthy(result) THEN store_suggestion(d, k, result)
    ELSE Put(d, k, Put(IF k \in DOMAIN d THEN d[k] ELSE EmptyDict,
                       "status", "untranslated"))

\* Lines 70-80: what the loop body does with translate_text's result.
apply_result(d, k, result) ==
    IF Truthy(result) THEN store_suggestion(d, k, result) ELSE d

\* skip_string testing the human text, not the suggestion
skip_string_on_text(d, k, skip_existing) ==
    skip_existing /\ k \in DOMAIN d /\ Truthy(Get(d[k], "text"))

\* Lines 62-65: the skip test
skip_string(d, k, skip_existing) ==
    skip_existing /\ k \in DOMAIN d /\ Truthy(Get(d[k], "ai_suggestion"))

\* Lines 55-89: the loop of translate_strings from string k on.  responses[k]
\* is what translate_text returns if it is called for the k-th string.
RECURSIVE strings_loop(_, _, _, _, _)
strings_loop(strs, k, responses, skip_existing, acc) ==
    IF k > Len(strs) THEN acc
    ELSE LET string_id == strs[k].id
         IN IF skip_string(acc.translations, string_id, skip_existing)
            THEN strings_loop(strs, k + 1, responses, skip_existing,
                    [acc EXCEPT !.total = @ + 1, !.skipped = @ + 1])
            ELSE strings_loop(strs, k + 1, responses, skip_existing,
                    [acc EXCEPT
                        !.total = @ + 1,
                        !.translations = apply_result(@, string_id, responses[k]),
                        !.translated = IF Truthy(responses[k]) THEN @ + 1 ELSE @,
                        !.calls = Append(@, [id |-> string_id, en |-> strs[k].en,
                                             result |-> responses[k]])])

\* translate_strings keeping only the entries of the current catalog
translate_strings_pruning(source_strings, d, responses, skip_existing) ==
    LET r == strings_loop(AllStrings(source_strings.sections), 1, responses,
                          skip_existing,
                          [translations |-> d, total |-> 0, translated |-> 0,
                           skipped |-> 0, calls |-> <<>>])
        ids == {x.id : x \in Range(AllStrings(source_strings.sections))}
        keep == {k \in DOMAIN r.translations : k \in ids \cup {<<"_meta">>, <<"glossary">>}}
    IN [r EXCEPT !.translations = [k \in keep |-> r.translations[k]]]

translate_strings(source_strings, d, responses, skip_existing) ==
    strings_loop(AllStrings(source_strings.sections), 1, responses, skip_existing,
                 [translations |-> d, total |-> 0, translated |-> 0, skipped |-> 0,
                  calls |-> <<>>])

\* Lines 99-120: the loop of translate_glossary from term k on, over
\* translations['glossary'].
RECURSIVE glossary_loop(_, _, _, _)
glossary_loop(terms, k, responses, acc) ==
    IF k > Len(terms) THEN acc
    ELSE LET term == terms[k].en
         IN IF skip_string(acc.glossary, term, TRUE)
            THEN glossary_loop(terms, k + 1, responses, acc)
            ELSE glossary_loop(terms, k + 1, responses,
                    [acc EXCEPT
                        !.glossary = apply_result(@, term, responses[k]),
                        !.translated = IF Truthy(responses[k]) THEN @ + 1 ELSE @])

translate_glossary(glossary, d, responses) ==
    LET d1 == IF GlossaryKey \notin DOMAIN d THEN Put(d, GlossaryKey, EmptyDict) ELSE d
        r == glossary_loop(AllTerms(glossary.categories), 1, responses,
                           [glossary |-> d1[GlossaryKey], translated |-> 0])
    IN [translations |-> Put(d1, GlossaryKey, r.glossary), translated |-> r.translated]

\* Lines 155-159: the dict a run starts from
load_translations(file) ==
    IF file.exists THEN file.data
    ELSE (MetaKey :> [language |-> Lang, code |-> Lang])

NoStore == [exists |-> FALSE, data |-> EmptyDict]

NoReport == [glossary |-> 0, total |-> 0, translated |-> 0, skipped |-> 0]


----------------------------------------------------------------------------
(* scripts/export_translations.py *)

\* The statuses line 70 (and 111) exports
ExportStatuses == {"approved", "submitted", "draft"}

ContextTags == {"header", "paragraph", "list_item"}

\* Lines 67-70: the test that an id is exported
Qualifies(d, string_id) ==
    string_id \in DOMAIN d /\ Get(d[string_id], "status") \in ExportStatuses

\* simple_key without the test for context tags of line 78: the category is
\* always the second-to-last segment.
simple_key_untagged(keys) ==
    IF Len(keys) >= 3 THEN << keys[Len(keys) - 1], keys[Len(keys)] >> ELSE keys

\* Lines 73-82 and 86: string_id.split("."), the simplified key, and its
\* split(".")
simple_key(keys) ==
    IF Len(keys) >= 3
    THEN << IF keys[Len(keys) - 1] \notin ContextTags
            THEN keys[Len(keys) - 1] ELSE keys[Len(keys) - 2],
            keys[Len(keys)] >>
    ELSE keys

\* Lines 85-91: walk (and create) the nested dicts, then assign the leaf
RECURSIVE NestedPut(_, _, _)
NestedPut(current, key_parts, value) ==
    IF Len(key_parts) = 1 THEN Put(current, key_parts[1], value)
    ELSE Put(current, Head(key_parts),
             NestedPut(IF Head(key_parts) \in DOMAIN current
                       THEN current[Head(key_parts)] ELSE EmptyDict,
                       Tail(key_parts), value))

\* Lines 60-61: section_name.startswith("gear_optimizer/")
IsGearSection(name) == Len(name) >= 2 /\ Head(name) = <<"gear_optimizer">>

\* The records the two loops (lines 59-64 and 104-108) visit, in order
RECURSIVE GearStrings(_)
GearStrings(sections) ==
    IF sections = <<>> THEN <<>>
    ELSE (IF IsGearSection(Head(sections).name)
          THEN Head(sections).value.strings ELSE <<>>) \o GearStrings(Tail(sections))

\* Lines 56-92: the nested output and the count
RECURSIVE nested_loop(_, _, _, _)
nested_loop(strs, k, d, acc) ==
    IF k > Len(strs) THEN acc
    ELSE IF Qualifies(d, strs[k].id)
         THEN nested_loop(strs, k + 1, d,
                [output |-> NestedPut(acc.output, simple_key(strs[k].id),
                                      GetOr(d[strs[k].id], "text", "")),
                 exported_count |-> acc.exported_count + 1])
         ELSE nested_loop(strs, k + 1, d, acc)

\* Lines 95-116: the flat output's "strings"
RECURSIVE flat_loop(_, _, _, _)
flat_loop(strs, k, d, acc) ==
    IF k > Len(strs) THEN acc
    ELSE IF Qualifies(d, strs[k].id)
         THEN flat_loop(strs, k + 1, d,
                Put(acc, strs[k].id,
                    [en |-> strs[k].en,
                     ko |-> GetOr(d[strs[k].id], "text", ""),
                     status |-> Get(d[strs[k].id], "status")]))
         ELSE flat_loop(strs, k + 1, d, acc)

\* export_gear_optimizer(lang, translations, source_data): the two files it
\* writes (exported_at, the clock's, left out)
export_gear_optimizer(d, source_data) ==
    LET strs == GearStrings(source_data.sections)
        n == nested_loop(strs, 1, d, [output |-> EmptyDict, exported_count |-> 0])
    IN [nested |-> n.output,
        flat |-> [meta |-> [language |-> Lang, string_count |-> n.exported_count],
                  strings |-> flat_loop(strs, 1, d, EmptyDict)]]

----------------------------------------------------------------------------
(* The portal: a translator saves a text and a status for a catalog string *)

NoLocale ==
    [exists |-> FALSE,
     data |-> [nested |-> EmptyDict,
               flat |-> [meta |-> [language |-> Lang, string_count |-> 0],
                         strings |-> EmptyDict]]]

\* What a save carries: a translation approved or kept as a draft, or a
\* draft whose text is (still, or again) empty.
PortalSaves ==
    { [text |-> "Bang-eo", status |-> "approved"],
      [text |-> "Bang-eo", status |-> "draft"],
      [text |-> "", status |-> "draft"] }

portal_save(file, string_id, text, status) ==
    LET d == load_translations(file)
        e0 == IF string_id \in DOMAIN d THEN d[string_id] ELSE EmptyDict
    IN Put(d, string_id, Put(Put(e0, "text", text), "status", status))

----------------------------------------------------------------------------
(* The state machine *)

\* The checkout at the start: two components with the same stem in
\* different directories.
InitTree ==
    [i \in DOMAIN Files |->
        IF i \in {1, 3} THEN Source(<<"Attack">>) ELSE NoSource]

\* The language file at the start: the first component's string and the
\* glossary term, translated and approved.
InitStore ==
    (MetaKey :> [language |-> Lang, code |-> Lang])
    @@ (GlossaryKey :> ("Attack" :> [text |-> "Gonggyeok", status |-> "approved"]))
    @@ (<<"vue", "a", "Foo", "0">> :> [text |-> "Gonggyeok", status |-> "approved"])

Init ==
    /\ tree = InitTree
    /\ catalog = File(BuildOutput(InitTree, [i \in VueIdx |-> CHOOSE r \in Rankings : TRUE]))
    /\ snapshot = NoCatalog
    /\ store \in {NoStore, File(InitStore)}
    /\ pc = "idle"
    /\ translations = EmptyDict
    /\ calls = <<>>
    /\ report = NoReport
    /\ locale = NoLocale
    /\ changes = 0
    /\ torn = FALSE
    /\ tt = NoCall

\* A developer changes, adds or deletes a source file.
EditSource ==
    /\ pc = "idle"
    /\ changes < MaxChanges
    /\ \E i \in DOMAIN Files : \E f \in {Source(c) : c \in ContentsOf(i)} \cup {NoSource} :
          /\ f # tree[i]
          /\ tree' = [tree EXCEPT ![i] = f]
    /\ changes' = changes + 1
    /\ UNCHANGED <<catalog, snapshot, store, pc, translations, calls, report, locale>>
    /\ UNCHANGED <<torn, tt>>

\* python3 scripts/extract_strings.py, with --sync or without
Extract(sync) ==
    /\ pc = "idle"
    /\ \E ranks \in [VueIdx -> Rankings] :
          LET output == BuildOutput(tree, ranks)
          IN /\ catalog' = File(output)
             /\ snapshot' = IF sync THEN File(output) ELSE snapshot
    /\ UNCHANGED <<tree, store, pc, translations, calls, report, locale, changes>>
    /\ UNCHANGED <<torn, tt>>

\* python3 scripts/ai_translate.py ko, lines 128-159
MainLoad ==
    /\ pc = "idle"
    /\ catalog.exists
    /\ ~torn                        \* json.load raises on an incomplete text
    /\ translations' = load_translations(store)
    /\ pc' = "loaded"
    /\ UNCHANGED <<tree, catalog, snapshot, store, calls, report, locale, changes>>
    /\ UNCHANGED <<torn, tt>>

\* lines 161-174
MainTranslate ==
    /\ pc = "loaded"
    /\ \E gresp \in [1..Len(AllTerms(Glossary.categories)) -> TranslateResults] :
       \E resp \in [1..Len(AllStrings(catalog.data.sections)) -> TranslateResults] :
          LET g == translate_glossary(Glossary, translations, gresp)
              r == translate_strings(catalog.data, g.translations, resp, TRUE)
          IN /\ translations' = r.translations
             /\ calls' = r.calls
             /\ report' = [glossary |-> g.translated, total |-> r.total,
                           translated |-> r.translated, skipped |-> r.skipped]
    /\ pc' = "merged"
    /\ UNCHANGED <<tree, catalog, snapshot, store, locale, changes>>
    /\ UNCHANGED <<torn, tt>>

\* lines 176-178
MainSave ==
    /\ pc = "merged"
    /\ store' = File(translations)
    /\ translations' = EmptyDict
    /\ calls' = <<>>
    /\ report' = NoReport
    /\ pc' = "idle"
    /\ UNCHANGED <<tree, catalog, snapshot, locale, changes>>
    /\ UNCHANGED <<torn, tt>>

\* A translator's save in the portal, between runs
PortalEdit ==
    /\ pc = "idle"
    /\ changes < MaxChanges
    /\ ~torn
    /\ \E string_id \in CatalogIds(catalog) : \E save \in PortalSaves :
          store' = File(portal_save(store, string_id, save.text, save.status))
    /\ changes' = changes + 1
    /\ UNCHANGED <<tree, catalog, snapshot, pc, translations, calls, report, locale>>
    /\ UNCHANGED <<torn, tt>>

\* python3 scripts/export_translations.py --lang ko
Export ==
    /\ pc = "idle"
    /\ catalog.exists
    /\ store.exists
    /\ ~torn                        \* json.load raises on an incomplete text
    /\ locale' = File(export_gear_optimizer(store.data, catalog.data))
    /\ UNCHANGED <<tree, catalog, snapshot, store, pc, translations, calls, report, changes>>
    /\ UNCHANGED <<torn, tt>>

\* Extraction (without --sync: nothing reads the snapshots), the portal and
\* the machine-translation runs
Next ==
    \/ EditSource
    \/ Extract(FALSE)
    \/ MainLoad
    \/ MainTranslate
    \/ MainSave
    \/ PortalEdit

Spec == Init /\ [][Next]_vars

\* All three scripts, extraction with --sync or without
NextAll ==
    \/ EditSource
    \/ \E sync \in BOOLEAN : Extract(sync)
    \/ MainLoad
    \/ MainTranslate
    \/ MainSave
    \/ PortalEdit
    \/ Export

SpecAll == Init /\ [][NextAll]_vars

----------------------------------------------------------------------------
(* save_json step by step, and a run that dies *)

\* save_json, line 30: open(path, 'w') creates or truncates the language
\* file; until json.dump has written everything it holds no complete text.
SaveOpen ==
    /\ pc = "merged"
    /\ store' = File(EmptyDict)
    /\ torn' = TRUE
    /\ pc' = "saving"
    /\ UNCHANGED <<tree, catalog, snapshot, translations, calls, report, locale, changes, tt>>

\* save_json, line 31: json.dump writes the dict, the file is closed, the
\* run ends.
SaveDump ==
    /\ pc = "saving"
    /\ store' = File(translations)
    /\ torn' = FALSE
    /\ translations' = EmptyDict
    /\ calls' = <<>>
    /\ report' = NoReport
    /\ pc' = "idle"
    /\ UNCHANGED <<tree, catalog, snapshot, locale, changes, tt>>

\* The process of a run stops where it is (killed, power loss, json.dump or
\* the disk raising): what it holds in memory is gone, the files stay as
\* they are.
Crash ==
    /\ pc # "idle"
    /\ pc' = "idle"
    /\ translations' = EmptyDict
    /\ calls' = <<>>
    /\ report' = NoReport
    /\ UNCHANGED <<tree, catalog, snapshot, store, locale, changes, torn, tt>>

\* The runs of Spec with save_json in its two steps, and runs that die
NextCrash ==
    \/ EditSource
    \/ Extract(FALSE)
    \/ MainLoad
    \/ MainTranslate
    \/ SaveOpen
    \/ SaveDump
    \/ PortalEdit
    \/ Crash

SpecCrash == Init /\ [][NextCrash]_vars

----------------------------------------------------------------------------
(* A translator saving while a run is in progress *)

\* The portal writes the language file between a run's load_json and its
\* save_json: nothing in main() takes a lock, so nothing holds it back.
PortalEditDuringRun ==
    /\ pc \in {"loaded", "merged"}
    /\ changes < MaxChanges
    /\ ~torn
    /\ \E string_id \in CatalogIds(catalog) : \E save \in PortalSaves :
          store' = File(portal_save(store, string_id, save.text, save.status))
    /\ changes' = changes + 1
    /\ UNCHANGED <<tree, catalog, snapshot, pc, translations, calls, report, locale, torn, tt>>

NextRace ==
    \/ EditSource
    \/ Extract(FALSE)
    \/ MainLoad
    \/ MainTranslate
    \/ MainSave
    \/ PortalEdit
    \/ PortalEditDuringRun

SpecRace == Init /\ [][NextRace]_vars

----------------------------------------------------------------------------
(* translate_text step by step *)

\* The largest `retries` a call is followed with, and the number of provider
\* outcomes drawn for it
MaxRetries == 3

\* A call translate_text(text, target_lang, retries) about to enter its loop
CallStart(outcomes, retries) ==
    [state |-> "trying", outcomes |-> outcomes, retries |-> retries, attempt |-> 0,
     ncalls |-> 0, result |-> None]

\* Lines 35-45, one pass of `for attempt in range(retries)`: the provider is
\* called; its result is returned, or its exception caught and, on the last
\* attempt, None returned.
TryCall ==
    /\ tt.state = "trying"
    /\ tt.attempt < tt.retries
    /\ LET outcome == tt.outcomes[tt.attempt + 1]
       IN tt' = IF outcome \notin ProviderErrors
                THEN [tt EXCEPT !.ncalls = @ + 1, !.result = outcome, !.state = "done"]
                ELSE IF tt.attempt < tt.retries - 1
                     THEN [tt EXCEPT !.ncalls = @ + 1, !.state = "sleeping"]
                     ELSE [tt EXCEPT !.ncalls = @ + 1, !.result = None, !.state = "done"]
    /\ UNCHANGED <<tree, catalog, snapshot, store, pc, translations, calls, report, locale,
                   changes, torn>>

\* Line 42: time.sleep(1), then the next pass
SleepThenRetry ==
    /\ tt.state = "sleeping"
    /\ tt' = [tt EXCEPT !.attempt = @ + 1, !.state = "trying"]
    /\ UNCHANGED <<tree, catalog, snapshot, store, pc, translations, calls, report, locale,
                   changes, torn>>

\* Line 46: the loop has nothing (left) to do
LoopExhausted ==
    /\ tt.state = "trying"
    /\ tt.attempt >= tt.retries
    /\ tt' = [tt EXCEPT !.result = None, !.state = "done"]
    /\ UNCHANGED <<tree, catalog, snapshot, store, pc, translations, calls, report, locale,
                   changes, torn>>

\* One call of translate_text, for every way the provider can behave and
\* every retries up to MaxRetries
InitRetry ==
    /\ tree = InitTree
    /\ catalog = NoCatalog
    /\ snapshot = NoCatalog
    /\ store = NoStore
    /\ pc = "idle"
    /\ translations = EmptyDict
    /\ calls = <<>>
    /\ report = NoReport
    /\ locale = NoLocale
    /\ changes = 0
    /\ torn = FALSE
    /\ tt \in {CallStart(o, n) : o \in [1..MaxRetries -> ProviderOutcomes], n \in 0..MaxRetries}

NextRetry ==
    \/ TryCall
    \/ SleepThenRetry
    \/ LoopExhausted

SpecRetry == InitRetry /\ [][NextRetry]_vars

----------------------------------------------------------------------------
(* export_gear_optimizer on its own *)

\* Checkouts with one component and one Markdown page
ExportTrees ==
    {[i \in DOMAIN Files |->
         IF i = 1 THEN Source(<<"Attack">>)
         ELSE IF i = 4 THEN Source(c)
         ELSE NoSource] : c \in MdContents}

\* A source-strings.json that does not come from extract_gear_optimizer:
\* load_source_strings reads whatever the file holds.  One section of
\* gear_optimizer with a three-segment and a two-segment id, and one section
\* of another source.
OtherCatalog ==
    [meta |-> [total_strings |-> 3, total_chars |-> 18],
     sections |->
        << [name |-> << <<"gear_optimizer">>, <<"misc">> >>,
            value |-> [source_file |-> RelPath(Files[4]), type |-> "markdown",
                       strings |-> << [id |-> <<"a", "b", "0">>, en |-> "Attack",
                                       chars |-> 6, hash |-> hash_string("Attack")],
                                      [id |-> <<"c", "0">>, en |-> "Attack",
                                       chars |-> 6, hash |-> hash_string("Attack")] >>]],
           [name |-> << <<"other">>, <<"misc">> >>,
            value |-> [source_file |-> RelPath(Files[4]), type |-> "markdown",
                       strings |-> << [id |-> <<"o", "p", "0">>, en |-> "Attack",
                                       chars |-> 6, hash |-> hash_string("Attack")] >>]] >>]

ExportCatalogs ==
    {BuildOutput(tr, [i \in VueIdx |-> CHOOSE r \in Rankings : TRUE]) : tr \in ExportTrees}
       \cup {OtherCatalog}

\* What the language file may hold for the k-th string of a catalog: no
\* entry, or an entry in one of these states (a draft with no text yet, and
\* texts that differ from string to string)
EntryKinds == {"absent", "approved", "draft", "needs_review"}

EntryOf(kind, k) ==
    CASE kind = "approved" -> [text |-> "T" \o Str(k), status |-> "approved"]
      [] kind = "draft" -> [status |-> "draft"]
      [] kind = "needs_review" -> [text |-> "T" \o Str(k), status |-> "needs_review",
                                   ai_suggestion |-> "ai"]

\* The language files over a catalog's ids
ExportStores(c) ==
    LET strs == AllStrings(c.sections)
    IN {[x \in {MetaKey} \cup {strs[k].id : k \in {j \in DOMAIN strs : kinds[j] # "absent"}} |->
            IF x = MetaKey THEN [language |-> Lang, code |-> Lang]
            ELSE LET k == CHOOSE j \in DOMAIN strs : strs[j].id = x
                 IN EntryOf(kinds[k], k)] : kinds \in [DOMAIN strs -> EntryKinds]}

InitExport ==
    /\ tree = InitTree
    /\ \E c \in ExportCatalogs : \E d \in ExportStores(c) :
          /\ catalog = File(c)
          /\ store = File(d)
    /\ snapshot = NoCatalog
    /\ pc = "idle"
    /\ translations = EmptyDict
    /\ calls = <<>>
    /\ report = NoReport
    /\ locale = NoLocale
    /\ changes = 0
    /\ torn = FALSE
    /\ tt = NoCall

NextExport == Export

SpecExport == InitExport /\ [][NextExport]_vars

----------------------------------------------------------------------------
(* Properties *)

\* The keys of a language dict that are string ids
StringKeys(d) == DOMAIN d \ {MetaKey, GlossaryKey}

GlossaryOf(d) == IF GlossaryKey \in DOMAIN d THEN d[GlossaryKey] ELSE EmptyDict

\* The step in which a run merges (translate_glossary, then translate_strings)
MergeStep == pc = "loaded" /\ pc' = "merged"

\* A run of extract_strings.py
ExtractStep == \E sync \in BOOLEAN : Extract(sync)

\* Entry `after` is entry `before` except perhaps for its ai_suggestion.
SameButSuggestion(before, after) ==
    \A f \in (DOMAIN before \cup DOMAIN after) \ {"ai_suggestion"} :
        /\ f \in DOMAIN before
        /\ f \in DOMAIN after
        /\ before[f] = after[f]

\* C1  No-clobber: a merge run, whatever the provider answers, leaves the
\* text and the status of every entry with a non-empty text as they were,
\* for strings and for glossary terms; only ai_suggestion may change.
C1_NoClobber ==
    [][MergeStep =>
        /\ \A k \in StringKeys(translations) :
              Truthy(Get(translations[k], "text")) =>
                 /\ k \in DOMAIN translations'
                 /\ SameButSuggestion(translations[k], translations'[k])
        /\ \A t \in DOMAIN GlossaryOf(translations) :
              Truthy(Get(GlossaryOf(translations)[t], "text")) =>
                 /\ t \in DOMAIN GlossaryOf(translations')
                 /\ SameButSuggestion(GlossaryOf(translations)[t],
                                      GlossaryOf(translations')[t])]_vars

\* C1 witness: a merge in which the provider answered for a string whose
\* entry has a text, and for a glossary term whose entry has a text.
C1_Witness ==
    /\ pc = "merged"
    /\ \E i \in DOMAIN calls :
          /\ Truthy(calls[i].result)
          /\ Truthy(Get(translations[calls[i].id], "text"))
          /\ Get(translations[calls[i].id], "ai_suggestion") = calls[i].result
    /\ \E t \in DOMAIN GlossaryOf(translations) :
          /\ Truthy(Get(GlossaryOf(translations)[t], "text"))
          /\ Truthy(Get(GlossaryOf(translations)[t], "ai_suggestion"))
          /\ ~Truthy(Get(GlossaryOf(store.data)[t], "ai_suggestion"))

\* C2  Status never moves backward under merging: an entry whose status is
\* draft, submitted or approved keeps that status through a merge run,
\* whether or not its text is empty.
C2_StatusKept ==
    [][MergeStep =>
        \A k \in StringKeys(translations) :
           Get(translations[k], "status") \in {"draft", "submitted", "approved"} =>
              /\ k \in DOMAIN translations'
              /\ Get(translations'[k], "status") = Get(translations[k], "status")]_vars

\* The records of a catalog file
Records(c) == Range(AllStrings(c.data.sections))

\* The ids whose source text differs between the newest snapshot and the
\* catalog (the Diff Engine's `changed`), the source files having changed
\* since that snapshot was taken
Changed ==
    IF \E ranks \in [VueIdx -> Rankings] : snapshot.data = BuildOutput(tree, ranks)
    THEN {}
    ELSE {r.id : r \in {x \in Records(catalog) :
                \E q \in Records(snapshot) : q.id = x.id /\ q.hash # x.hash}}

\* C3  Stale translations are flagged: when the source text of an id has
\* changed since the previous snapshot and the language file holds a draft,
\* submitted or approved entry for it, the merge of the next run leaves the
\* entry needs_review with its text, and an export no longer has the id.
C3_StaleFlagged ==
    pc = "merged" =>
       \A k \in Changed :
          (/\ k \in StringKeys(store.data)
           /\ Get(store.data[k], "status") \in {"draft", "submitted", "approved"}) =>
             /\ k \in DOMAIN translations
             /\ Get(translations[k], "status") = "needs_review"
             /\ Get(translations[k], "text") = Get(store.data[k], "text")
             /\ k \notin DOMAIN export_gear_optimizer(translations, catalog.data).flat.strings

\* C4  Orphan preservation: a merge run deletes no entry and leaves every
\* entry whose id is not in the current catalog exactly as it was, and so
\* does every step of an extraction or of a run on the language file.
C4_OrphansKept ==
    [][/\ MergeStep =>
            \A k \in StringKeys(translations) :
               /\ k \in DOMAIN translations'
               /\ k \notin CatalogIds(catalog) => translations'[k] = translations[k]
       /\ (changes' = changes /\ store.exists) =>
            /\ store'.exists
            /\ \A k \in StringKeys(store.data) :
                  /\ k \in DOMAIN store'.data
                  /\ k \notin CatalogIds(catalog) => store'.data[k] = store.data[k]]_vars

\* C4 witness: a merge that called the provider while the dict holds an
\* entry, with a text, whose id the catalog no longer has.
C4_Witness ==
    /\ pc = "merged"
    /\ calls # <<>>
    /\ \E k \in StringKeys(translations) :
          /\ k \notin CatalogIds(catalog)
          /\ Truthy(Get(translations[k], "text"))

RECURSIVE NestedGet(_, _)
\* The value of a nested dict at a key path, None if the path is not there
NestedGet(d, path) ==
    IF Head(path) \notin DOMAIN d THEN None
    ELSE IF Len(path) = 1 THEN d[Head(path)]
    ELSE NestedGet(d[Head(path)], Tail(path))

\* Two distinct qualifying ids of the catalog share their simplified path.
Collides(d, c, string_id) ==
    \E r \in Records(c) :
       /\ r.id # string_id
       /\ Qualifies(d, r.id)
       /\ simple_key(r.id) = simple_key(string_id)

\* C5  Round-trip export: after an export, the nested output holds, at the
\* simplified path of every catalog id whose entry qualifies, that entry's
\* text; and every value of the nested and of the flat output comes from a
\* qualifying entry.
C5_RoundTrip ==
    [][Export =>
        /\ \A r \in Records(catalog) :
              Qualifies(store.data, r.id) =>
                 NestedGet(locale'.data.nested, simple_key(r.id))
                    = GetOr(store.data[r.id], "text", "")
        /\ \A k \in DOMAIN locale'.data.flat.strings : Qualifies(store.data, k)
        /\ \A c \in DOMAIN locale'.data.nested :
              \A i \in DOMAIN locale'.data.nested[c] :
                 \E r \in Records(catalog) :
                    /\ Qualifies(store.data, r.id)
                    /\ simple_key(r.id) = <<c, i>>
                    /\ GetOr(store.data[r.id], "text", "") = locale'.data.nested[c][i]]_vars

\* C6  Export collisions are reported, never overwritten: after an export,
\* a path that two distinct qualifying ids map to holds no value, and every
\* other qualifying id's text is at its path.
C6_CollisionWithheld ==
    [][Export =>
        \A r \in Records(catalog) :
           Qualifies(store.data, r.id) =>
              NestedGet(locale'.data.nested, simple_key(r.id))
                 = IF Collides(store.data, catalog, r.id) THEN None
                   ELSE GetOr(store.data[r.id], "text", "")]_vars

\* C7  Extraction determinism: an extraction over the files the catalog was
\* built from yields the same sections, records, ids and texts again.
C7_Deterministic ==
    [][(/\ ExtractStep
        /\ catalog.exists
        /\ \E ranks \in [VueIdx -> Rankings] : catalog.data = BuildOutput(tree, ranks))
       => catalog'.data = catalog.data]_vars

\* The files extract_gear_optimizer turns into a section
Scanned(tr) ==
    {i \in VueIdx \cup MdIdx :
        /\ tr[i].exists
        /\ tr[i].strings # <<>>
        /\ [stem |-> Files[i].stem, suffix |-> Files[i].suffix] \notin EXCLUDED_FILES}

SectionName(i) ==
    << <<"gear_optimizer">> >>
       \o (IF i \in VueIdx THEN vue_section_name(Files[i]) ELSE md_section_name(Files[i]))

\* Two scanned files that get the same section name, hence the same ids
SectionCollision(tr) ==
    \E i, j \in Scanned(tr) : i # j /\ SectionName(i) = SectionName(j)

\* How many records the scanners return for a file
RECURSIVE ExtractedCount(_, _)
ExtractedCount(tr, S) ==
    IF S = {} THEN 0
    ELSE LET i == CHOOSE x \in S : TRUE
         IN (IF i \in VueIdx THEN Cardinality(Range(tr[i].strings))
             ELSE Len(tr[i].strings))
            + ExtractedCount(tr, S \ {i})

\* C8  Identifier collisions are fatal: an extraction over files of which
\* two get the same ids persists nothing, and the catalog an extraction
\* persists holds every extracted record.
C8_CollisionFatal ==
    [][ExtractStep =>
        /\ SectionCollision(tree) => UNCHANGED <<catalog, snapshot>>
        /\ catalog' # catalog =>
              catalog'.data.meta.total_strings = ExtractedCount(tree, Scanned(tree))]_vars

\* The texts a file's scanner found, in the order it found them
Found(tr, i) ==
    IF i \in VueIdx THEN tr[i].strings
    ELSE [j \in DOMAIN tr[i].strings |-> tr[i].strings[j][2]]

\* C9  Duplicates are distinct units in extraction order: the section of a
\* scanned file (one that shares its section name with no other) holds one
\* record per text found, in the order found, under pairwise different ids;
\* for Vue components and for Markdown pages.
C9_UnitsInOrder ==
    [][ExtractStep =>
        \A i \in Scanned(tree) :
           (\A j \in Scanned(tree) : j # i => SectionName(j) # SectionName(i)) =>
              \E n \in DOMAIN catalog'.data.sections :
                 LET sec == catalog'.data.sections[n]
                 IN /\ sec.name = SectionName(i)
                    /\ [j \in DOMAIN sec.value.strings |-> sec.value.strings[j].en]
                          = Found(tree, i)
                    /\ \A a, b \in DOMAIN sec.value.strings :
                          a # b => sec.value.strings[a].id # sec.value.strings[b].id]_vars

\* C10  Provider failure is isolated per string: in a merge, every string of
\* the catalog is counted and is either skipped or sent to the provider; a
\* string whose translation failed leaves the dict as it was for that id (no
\* entry created, none changed); a string translated after a failure gets
\* its suggestion; and every id that has no suggestion when the merge
\* starts, a failure of an earlier run included, is sent to the provider.
C10_FailureIsolated ==
    [][MergeStep =>
        LET strs == AllStrings(catalog.data.sections)
        IN /\ report'.total = Len(strs)
           /\ Len(calls') + report'.skipped = Len(strs)
           /\ \A i \in DOMAIN calls' :
                 IF Truthy(calls'[i].result)
                 THEN /\ calls'[i].id \in DOMAIN translations'
                      /\ Get(translations'[calls'[i].id], "ai_suggestion") = calls'[i].result
                 ELSE /\ calls'[i].id \in DOMAIN translations' <=> calls'[i].id \in DOMAIN translations
                      /\ calls'[i].id \in DOMAIN translations =>
                            translations'[calls'[i].id] = translations[calls'[i].id]
           /\ \A r \in Range(strs) :
                 (r.id \notin DOMAIN translations
                     \/ ~Truthy(Get(translations[r.id], "ai_suggestion")))
                   => \E i \in DOMAIN calls' : calls'[i].id = r.id]_vars

\* C10 witness: a merge in which a translation failed for an id that has no
\* entry, and a later string of the same batch was translated.
C10_Witness ==
    /\ pc = "merged"
    /\ \E i, j \in DOMAIN calls :
          /\ i < j
          /\ calls[i].result = None
          /\ calls[i].id \notin DOMAIN translations
          /\ Truthy(calls[j].result)
          /\ Get(translations[calls[j].id], "ai_suggestion") = calls[j].result

\* C11  Atomic persist: the language file never holds an incomplete text,
\* and a step of a run leaves in it either what it held or the run's
\* complete merged dict, a run that dies included.
C11_AtomicPersist ==
    [][/\ ~torn'
       /\ pc # "idle" =>
             \/ store' = store
             \/ store' = File(translations)]_vars

\* The step in which a run writes the language file
SaveStep == pc = "merged" /\ pc' = "idle" /\ store' # store

\* C12  Single writer per language: what a writer has persisted is still in
\* the language file after another writer's save: a run's save keeps every
\* entry of the file, and the text and the status of every entry that has
\* a text (which no merge changes).
C12_NoLostUpdate ==
    [][SaveStep =>
        (store.exists =>
           \A k \in StringKeys(store.data) :
              /\ k \in DOMAIN store'.data
              /\ Truthy(Get(store.data[k], "text")) =>
                    /\ Get(store'.data[k], "text") = Get(store.data[k], "text")
                    /\ Get(store'.data[k], "status") = Get(store.data[k], "status"))]_vars

\* C13  New identifiers get an entry: after a merge, every id of the catalog
\* that had no entry has one, and its status is untranslated as long as no
\* suggestion has arrived for it (a failed provider call included).
C13_NewIdsEntered ==
    [][MergeStep =>
        \A r \in Range(AllStrings(catalog.data.sections)) :
           r.id \notin DOMAIN translations =>
              /\ r.id \in DOMAIN translations'
              /\ ~Truthy(Get(translations'[r.id], "ai_suggestion")) =>
                    Get(translations'[r.id], "status") = "untranslated"]_vars

\* The step-by-step call returns what the operator translate_text computes.
TranslateTextAgrees ==
    tt.state = "done" => tt.result = translate_text(tt.outcomes, tt.retries)

\* The call after which translate_text is to stop: the first one, among the
\* `retries` allowed, that succeeds or fails permanently; `retries` if none.
LastCall(outcomes, retries) ==
    LET stops == {k \in 1..retries : outcomes[k] # ProviderError}
    IN IF stops = {} THEN retries
       ELSE CHOOSE k \in stops : \A j \in stops : k <= j

\* C14  Bounded retry: translate_text makes at most `retries` provider calls,
\* stops at the first success and returns its result, stops at a permanent
\* error after that single call and returns None, and returns None when all
\* `retries` calls failed.
C14_BoundedRetry ==
    tt.state = "done" =>
       LET n == LastCall(tt.outcomes, tt.retries)
       IN /\ tt.ncalls <= tt.retries
          /\ tt.ncalls = n
          /\ tt.result = IF n >= 1 /\ tt.outcomes[n] \notin ProviderErrors
                         THEN tt.outcomes[n] ELSE None

\* The nested path the export is to use for an id: category and index for
\* an id of three segments or more, the id's own segments otherwise.
KeyRule(id) ==
    LET n == Len(id)
    IN IF n >= 3
       THEN << IF id[n - 1] \in {"header", "paragraph", "list_item"} THEN id[n - 2]
               ELSE id[n - 1],
               id[n] >>
       ELSE id

\* The qualifying records of the gear_optimizer sections, in catalog order
Exported(d, c) ==
    SelectSeq(GearStrings(c.data.sections), LAMBDA r : Qualifies(d, r.id))

\* C15  Export key rule: after an export, the nested output holds at the
\* path KeyRule gives for a qualifying id the text written for that id or,
\* where later ids have the same path, for the last of them; and it holds
\* nothing at any other path.
C15_KeyRule ==
    locale.exists =>
       LET ex == Exported(store.data, catalog)
           nested == locale.data.nested
       IN /\ \A k \in DOMAIN ex :
                LET last == CHOOSE j \in DOMAIN ex :
                               /\ KeyRule(ex[j].id) = KeyRule(ex[k].id)
                               /\ \A i \in DOMAIN ex :
                                     KeyRule(ex[i].id) = KeyRule(ex[k].id) => i <= j
                IN NestedGet(nested, KeyRule(ex[k].id))
                      = GetOr(store.data[ex[last].id], "text", "")
          /\ \A c \in DOMAIN nested : \A i \in DOMAIN nested[c] :
                \E k \in DOMAIN ex : KeyRule(ex[k].id) = <<c, i>>

\* C15 witness: an export that wrote, alone at their paths, the text of a
\* Markdown id with a context tag under [stem][index] and the text of a
\* component id under [stem][index].
C15_Witness ==
    /\ locale.exists
    /\ Qualifies(store.data, <<"content", "faq", "paragraph", "1">>)
    /\ <<"content", "faq", "paragraph", "1">> \in CatalogIds(catalog)
    /\ NestedGet(locale.data.nested, <<"faq", "1">>) = "T3"
    /\ NestedGet(locale.data.nested, <<"Foo", "0">>) = "T1"

\* Key k of dict d has a suggestion.
Suggested(d, k) == k \in DOMAIN d /\ Truthy(Get(d[k], "ai_suggestion"))

\* C16  Merge idempotence under skip_existing: a merge sends no string that
\* has a suggestion to the provider and leaves its entry as it is; when
\* every string of the catalog has one, it makes no provider call, reports
\* translated = 0 and skipped = total, and leaves every string entry as it
\* is; when every glossary term has one too, it leaves the whole dict as
\* it is.
C16_MergeIdempotent ==
    [][MergeStep =>
        LET strs == AllStrings(catalog.data.sections)
            terms == AllTerms(Glossary.categories)
        IN /\ \A r \in Range(strs) :
                 Suggested(translations, r.id) =>
                    /\ translations'[r.id] = translations[r.id]
                    /\ \A i \in DOMAIN calls' : calls'[i].id # r.id
           /\ (\A r \in Range(strs) : Suggested(translations, r.id)) =>
                 /\ calls' = <<>>
                 /\ report'.translated = 0
                 /\ report'.total = Len(strs)
                 /\ report'.skipped = report'.total
                 /\ StringKeys(translations') = StringKeys(translations)
                 /\ \A k \in StringKeys(translations) : translations'[k] = translations[k]
                 /\ (\A t \in Range(terms) : Suggested(GlossaryOf(translations), t.en)) =>
                       translations' = translations]_vars

\* C16 witness: a second merge over a catalog whose strings and glossary
\* terms all got their suggestions in an earlier run: no call, everything
\* skipped, the dict as the language file holds it.
C16_Witness ==
    /\ pc = "merged"
    /\ calls = <<>>
    /\ report.total >= 2
    /\ report.skipped = report.total
    /\ report.glossary = 0
    /\ \A r \in Range(AllStrings(catalog.data.sections)) : Suggested(translations, r.id)
    /\ translations = store.data

====
